---- MODULE Spec2Model ----
(***************************************************************************)
(* A model of the AI -> Marketo webhook (src/index.js): the in-memory      *)
(* Marketo token cache, the lead updater, the extraction and validation of *)
(* the model's answer, and the POST /webhooks/ai-email handler, run by     *)
(* several concurrent requests on one cooperative event loop.  Every await *)
(* of the source is a suspension point: one action runs from one await to  *)
(* the next.                                                               *)
(***************************************************************************)
EXTENDS Integers, Sequences, FiniteSets, TLC

(* ------------------------------ bounds -------------------------------- *)

\* Number of distinct access tokens the identity endpoint may hand out.
NumTokens == 2
\* How many times the clock advances.
MaxTicks == 1
\* Longest commentary, in symbols, put before and after a model answer.
MaxCommentLen == 1
\* One clock advance, in milliseconds.
TickMs == 100000
\* Date.now() at start-up, in milliseconds.
StartMs == 1000000

(* ------------------------- program constants -------------------------- *)

\* "marge aftrekken": the 300 seconds subtracted from expires_in.
SafetyMarginSeconds == 300
MsPerSecond == 1000
\* let marketoToken = null
NoToken == 0
\* let marketoTokenExpiresAt = 0
InitialExpiresAt == 0

\* The requests in flight at the same time: the races on the token cache
\* are races between two calls.
Reqs == {1, 2}
Tokens == 1..NumTokens
\* expires_in values (seconds) the identity endpoint may answer, below and
\* above the safety margin.
ExpiresInValues == {200, 400}

\* JavaScript's undefined: a property the JSON body does not carry.
UNDEF == "undefined"

\* the only key of BASE_DATA
BaseDataIds == {"VC_BASE_V1"}

(* ----------------------- the model's answer text ---------------------- *)
(* A text is a sequence of symbols.  "BT" is a backtick, "{", "}" and " "  *)
(* (any white-space) are single characters, "a" is any letter, "x" any     *)
(* other                                                                   *)
(* character.  Inside a JSON object a symbol is one lexical token: a       *)
(* quoted key with its colon, a value literal, or a comma.                 *)

KeySyms == {"subject:", "preheader:", "htmlBody:", "other:"}
\* "S" and "T" are two non-empty string literals, "E" the empty string
\* literal, "null" and "[]" the JSON literals.
ValueSyms == {"S", "T", "E", "null", "[]"}

IsWs(c) == c = " "
IsLetter(c) == c = "a"

RECURSIVE TrimStart(_)
TrimStart(s) == IF s # <<>> /\ IsWs(Head(s)) THEN TrimStart(Tail(s)) ELSE s

RECURSIVE TrimEnd(_)
TrimEnd(s) ==
    IF s # <<>> /\ IsWs(s[Len(s)]) THEN TrimEnd(SubSeq(s, 1, Len(s) - 1)) ELSE s

\* String.prototype.trim
Trim(s) == TrimEnd(TrimStart(s))

\* s.startsWith(three backticks)
StartsWithFence(s) == Len(s) >= 3 /\ s[1] = "BT" /\ s[2] = "BT" /\ s[3] = "BT"

RECURSIVE DropLetters(_)
DropLetters(s) == IF s # <<>> /\ IsLetter(Head(s)) THEN DropLetters(Tail(s)) ELSE s

\* content.replace(/^BTBTBT[a-zA-Z]*\s*/, ''): anchored at the start of the
\* text as it is (not of the trimmed text).
StripOpeningFence(s) ==
    IF StartsWithFence(s) THEN TrimStart(DropLetters(SubSeq(s, 4, Len(s)))) ELSE s

\* content.replace(/BTBTBT$/, ''): anchored at the very end of the text.
StripClosingFence(s) ==
    IF Len(s) >= 3 /\ s[Len(s)] = "BT" /\ s[Len(s) - 1] = "BT" /\ s[Len(s) - 2] = "BT"
    THEN SubSeq(s, 1, Len(s) - 3)
    ELSE s

\* CLEANUP STAP 1
StripFences(content) ==
    IF StartsWithFence(Trim(content))
    THEN Trim(StripClosingFence(StripOpeningFence(content)))
    ELSE content

\* indexOf / lastIndexOf, 1-based; 0 stands for JavaScript's -1.
IndexOf(s, c) ==
    IF \E i \in 1..Len(s) : s[i] = c
    THEN CHOOSE i \in 1..Len(s) : s[i] = c /\ \A j \in 1..(i - 1) : s[j] # c
    ELSE 0

LastIndexOf(s, c) ==
    IF \E i \in 1..Len(s) : s[i] = c
    THEN CHOOSE i \in 1..Len(s) : s[i] = c /\ \A j \in (i + 1)..Len(s) : s[j] # c
    ELSE 0

\* Mutant: the order of the two braces is not looked at.
NoJsonObjectWithoutOrder(content) ==
    \/ IndexOf(content, "{") = 0
    \/ LastIndexOf(content, "}") = 0

\* firstCurly === -1 || lastCurly === -1 || lastCurly <= firstCurly
NoJsonObject(content) ==
    \/ IndexOf(content, "{") = 0
    \/ LastIndexOf(content, "}") = 0
    \/ LastIndexOf(content, "}") <= IndexOf(content, "{")

\* Mutant: the whole cleaned text is parsed.
JsonSliceWhole(content) == content

\* content.slice(firstCurly, lastCurly + 1)
JsonSlice(content) ==
    SubSeq(content, IndexOf(content, "{"), LastIndexOf(content, "}"))

\* JSON.parse of a slice that starts with "{" and ends with "}": white-
\* space between tokens is skipped; the rest must be key value pairs
\* separated by commas.
NoWs(s) == SelectSeq(s, LAMBDA c : ~IsWs(c))

Members(slice) == SubSeq(NoWs(slice), 2, Len(NoWs(slice)) - 1)

WellFormedMembers(m) ==
    \/ m = <<>>
    \/ /\ Len(m) % 3 = 2
       /\ \A i \in 1..Len(m) :
            /\ (i % 3 = 1) => m[i] \in KeySyms
            /\ (i % 3 = 2) => m[i] \in ValueSyms
            /\ (i % 3 = 0) => m[i] = ","

JsonParses(slice) == WellFormedMembers(Members(slice))

\* The value of property k of the parsed object: the last member with
\* that key, undefined when there is none.
Property(m, k) ==
    IF \E i \in 1..Len(m) : m[i] = k
    THEN m[LastIndexOf(m, k) + 1]
    ELSE UNDEF

JsonParse(slice) ==
    [subject   |-> Property(Members(slice), "subject:"),
     preheader |-> Property(Members(slice), "preheader:"),
     htmlBody  |-> Property(Members(slice), "htmlBody:")]

\* JavaScript truthiness of a parsed value: undefined, null and "" are
\* falsy; a non-empty string and an array (even an empty one) are truthy.
Truthy(v) == v \in {"S", "T", "[]"}

\* Mutant: only the subject is validated.
MissingFieldsSubjectOnly(parsed) == ~Truthy(parsed.subject)

\* !parsed.subject || !parsed.preheader || !parsed.htmlBody
MissingFields(parsed) ==
    ~Truthy(parsed.subject) \/ ~Truthy(parsed.preheader) \/ ~Truthy(parsed.htmlBody)

ErrNoJsonObject == "OpenAI output bevat geen geldig JSON-object"
ErrNotPureJson == "OpenAI output is geen zuiver JSON (zie logs voor details)"
ErrMissingFields == "OpenAI JSON mist subject/preheader/htmlBody"

NoEmail == [subject |-> UNDEF, preheader |-> UNDEF, htmlBody |-> UNDEF]

\* Lines 208-244 of generateEmailWithAI: from the raw content to the
\* parsed object or the error thrown; parseCalled tells whether JSON.parse
\* was reached.
ExtractEmail(content) ==
    LET cleaned == StripFences(content) IN
    IF NoJsonObject(cleaned)
    THEN [ok |-> FALSE, error |-> ErrNoJsonObject, email |-> NoEmail,
          parseCalled |-> FALSE]
    ELSE IF ~JsonParses(JsonSlice(cleaned))
    THEN [ok |-> FALSE, error |-> ErrNotPureJson, email |-> NoEmail,
          parseCalled |-> TRUE]
    ELSE IF MissingFields(JsonParse(JsonSlice(cleaned)))
    THEN [ok |-> FALSE, error |-> ErrMissingFields, email |-> NoEmail,
          parseCalled |-> TRUE]
    ELSE [ok |-> TRUE, error |-> "", email |-> JsonParse(JsonSlice(cleaned)),
          parseCalled |-> TRUE]

(* ------------------------------ prompts ------------------------------- *)

\* The operand of || is falsy: undefined or the empty string.
Falsy(v) == v \in {UNDEF, ""}

\* v || d
OrElse(v, d) == IF Falsy(v) THEN d ELSE v

\* Mutant: the attributes are put in the prompt as they come.
BuildUserPromptNoDefaults(p) ==
    [sector |-> p.sector, employeeCount |-> p.employeeCount,
     jobTitle |-> p.jobTitle, language |-> p.language]

\* buildUserPrompt: what the template puts after "Sector:", "Aantal
\* werknemers:", "Jobtitel:" and "Taal:"; the rest of the prompt is fixed
\* text and base data.
BuildUserPrompt(p) ==
    [sector |-> OrElse(p.sector, "onbekend"),
     employeeCount |-> OrElse(p.employeeCount, "onbekend"),
     jobTitle |-> OrElse(p.jobTitle, "onbekend"),
     language |-> OrElse(p.language, "nl")]

(* --------------------------- requests -------------------------------- *)

\* req.body of a webhook request, the properties the handler reads: a
\* body with a lead id and a language, one without a lead id, one with
\* an empty lead id, and one with an unknown base data id.
RequestBodies ==
    {[marketoLeadId |-> "42", language |-> "en", baseDataId |-> UNDEF],
     [marketoLeadId |-> UNDEF, language |-> "en", baseDataId |-> UNDEF],
     [marketoLeadId |-> "", language |-> UNDEF, baseDataId |-> UNDEF],
     [marketoLeadId |-> "42", language |-> UNDEF, baseDataId |-> "OTHER"]}

NoBody == [marketoLeadId |-> UNDEF, language |-> UNDEF, baseDataId |-> UNDEF]

\* language = 'nl' in the destructuring of req.body
LanguageOf(body) == IF body.language = UNDEF THEN "nl" ELSE body.language

\* baseDataId = 'VC_BASE_V1' in the destructuring of req.body
BaseDataIdOf(body) ==
    IF body.baseDataId = UNDEF THEN "VC_BASE_V1" ELSE body.baseDataId

\* Mutant: only an absent lead id is refused, an empty one passes.
LeadIdMissingOnlyUndefined(id) == id = UNDEF

\* !marketoLeadId
LeadIdMissing(id) == id \in {UNDEF, ""}

\* The answers of the model the handler is run against: a fenced block,
\* an object with an empty, a missing or an array-valued field, text
\* without an object, and a slice that is no JSON.
CleanS == <<"{", "subject:", "S", ",", "preheader:", "S", ",", "htmlBody:", "S", "}">>
Fenced == <<"BT", "BT", "BT", "a", "a", " ">> \o CleanS \o <<" ", "BT", "BT", "BT">>
EmptySubject ==
    <<"{", "subject:", "E", ",", "preheader:", "S", ",", "htmlBody:", "S", "}">>
NoHtmlBody == <<"{", "subject:", "S", ",", "preheader:", "S", "}">>
ArraySubject ==
    <<"{", "subject:", "[]", ",", "preheader:", "S", ",", "htmlBody:", "T", "}">>
NoObject == <<"a", " ", "a">>
NotJson == <<"{", "a", " ", "a", "}">>

Contents == {Fenced, EmptySubject, NoHtmlBody, ArraySubject, NoObject, NotJson}

NoContent == <<>>

(* --------------------------- responses ------------------------------- *)

\* 'Onbekende baseDataId: ${baseDataId}', for the unknown id of RequestBodies
ErrUnknownBase == "Onbekende baseDataId: OTHER"
ErrOpenAI == "Failed to call OpenAI"
ErrToken == "Failed to get Marketo access token"
ErrUpdate == "Failed to update Marketo lead"
\* The message of an error raised by the runtime: a rejected fetch, a
\* body that is no JSON, a property read of undefined.
ErrRuntime == "runtime error"

\* The parsed body of the lead-update response: no errors property, an
\* empty errors array, or a non-empty errors array.
UpdateBodies == {"noErrors", "emptyErrors", "errors"}
NoUpdateBody == "none"

NoResponse ==
    [status |-> 0, error |-> "", aiEmail |-> NoEmail, marketo |-> NoUpdateBody]
\* res.status(401).json({ error: 'Unauthorized' })
Unauthorized ==
    [status |-> 401, error |-> "Unauthorized", aiEmail |-> NoEmail,
     marketo |-> NoUpdateBody]
\* res.status(400).json({ error: 'marketoLeadId is verplicht' })
BadRequest ==
    [status |-> 400, error |-> "marketoLeadId is verplicht", aiEmail |-> NoEmail,
     marketo |-> NoUpdateBody]
\* Mutant: the catch answers with the fallback text, whatever the error.
ServerErrorGeneric(message) ==
    [status |-> 500, error |-> "Internal server error", aiEmail |-> NoEmail,
     marketo |-> NoUpdateBody]

\* res.status(500).json({ error: err.message || 'Internal server error' })
ServerError(message) ==
    [status |-> 500, error |-> message, aiEmail |-> NoEmail, marketo |-> NoUpdateBody]
\* res.json({ success: true, message, aiEmail, marketo: mktoResponse })
Success(email, mktoResponse) ==
    [status |-> 200, error |-> "", aiEmail |-> email, marketo |-> mktoResponse]

\* Mutant: the language field is the default language, not the request's.
FieldsToUpdateDefaultLanguage(email, lang) ==
    [AI_Email_Subject__c |-> email.subject,
     AI_Email_Preheader__c |-> email.preheader,
     AI_Email_Body_HTML__c |-> email.htmlBody,
     AI_Email_Language__c |-> "nl",
     AI_Email_Ready__c |-> TRUE]

\* fieldsToUpdate
FieldsToUpdate(email, lang) ==
    [AI_Email_Subject__c |-> email.subject,
     AI_Email_Preheader__c |-> email.preheader,
     AI_Email_Body_HTML__c |-> email.htmlBody,
     AI_Email_Language__c |-> lang,
     AI_Email_Ready__c |-> TRUE]

\* No lead-update POST in flight.
NoPost ==
    [bearer |-> NoToken, id |-> UNDEF,
     fields |-> [AI_Email_Subject__c |-> UNDEF, AI_Email_Preheader__c |-> UNDEF,
                 AI_Email_Body_HTML__c |-> UNDEF, AI_Email_Language__c |-> UNDEF,
                 AI_Email_Ready__c |-> FALSE]]
\* No token data delivered.
NoData == [access_token |-> NoToken, expires_in |-> 0, callNow |-> 0]
NoCalls == [model |-> 0, token |-> 0, update |-> 0]

(* ----------------------------- state ---------------------------------- *)

VARIABLES
    now,                    \* Date.now()
    marketoToken,           \* the cached token, NoToken for null
    marketoTokenExpiresAt,  \* its expiry, epoch milliseconds
    pc,                     \* per request: the await it is suspended on
    req,                    \* per request: req.body
    aiEmail,                \* per request: what generateEmailWithAI returned
    callNow,                \* per request: now of its getMarketoAccessToken call
    token,                  \* per request: token of updateMarketoLead
    resOk,                  \* per request: res.ok of the lead-update response
    resp,                   \* per request: the response sent
    sent,                   \* per request: the lead-update POST in flight
    content,                \* per request: the text the model answered
    updBody,                \* per request: the body the lead-update endpoint answered
    calls,                  \* per request: the outbound calls issued for it
    raced,                  \* per request: its token exchange was in flight together
                            \* with the exchange of another request
    overwritten,            \* per request: another exchange has written the cache since
                            \* its getMarketoAccessToken call started
    lastDelivered,          \* the token data of the exchange that completed last
    responses,              \* per request: the responses sent on res
    input,                  \* the argument of a function run on its own
    output                  \* what that function returned

cacheVars == <<marketoToken, marketoTokenExpiresAt>>
reqVars == <<pc, req, aiEmail, callNow, token, resOk, resp, sent>>
histVars == <<content, updBody, calls, raced, overwritten, lastDelivered, responses>>
pureVars == <<input, output>>
vars == <<now, cacheVars, reqVars, histVars, pureVars>>

\* No function is run on its own.
NoInput == [kind |-> "none"]
NoOutput == [kind |-> "none"]

\* The process after start-up: the cache is empty and no request has
\* arrived.
InitProgram ==
    /\ now = StartMs
    /\ marketoToken = NoToken
    /\ marketoTokenExpiresAt = InitialExpiresAt
    /\ pc = [r \in Reqs |-> "idle"]
    /\ req = [r \in Reqs |-> NoBody]
    /\ aiEmail = [r \in Reqs |-> NoEmail]
    /\ callNow = [r \in Reqs |-> 0]
    /\ token = [r \in Reqs |-> NoToken]
    /\ resOk = [r \in Reqs |-> FALSE]
    /\ resp = [r \in Reqs |-> NoResponse]
    /\ sent = [r \in Reqs |-> NoPost]
    /\ content = [r \in Reqs |-> NoContent]
    /\ updBody = [r \in Reqs |-> NoUpdateBody]
    /\ calls = [r \in Reqs |-> NoCalls]
    /\ raced = [r \in Reqs |-> FALSE]
    /\ overwritten = [r \in Reqs |-> FALSE]
    /\ lastDelivered = NoData
    /\ responses = [r \in Reqs |-> 0]

Init ==
    /\ InitProgram
    /\ input = NoInput
    /\ output = NoOutput

(* ------------------------ the token cache ----------------------------- *)

\* Mutant: the expiry is not looked at.
CacheValidIgnoringExpiry(t) == marketoToken # NoToken

\* Mutant: a token is still served at the instant it expires.
CacheValidInclusive(t) == marketoToken # NoToken /\ t <= marketoTokenExpiresAt

\* marketoToken && now < marketoTokenExpiresAt
CacheValid(t) == marketoToken # NoToken /\ t < marketoTokenExpiresAt

\* Mutant: the safety margin is not subtracted.
ExpiresAtWithoutMargin(t, expiresIn) == t + expiresIn * MsPerSecond

\* now + (data.expires_in - 300) * 1000
ExpiresAt(t, expiresIn) == t + (expiresIn - SafetyMarginSeconds) * MsPerSecond

\* Mutant: the cache is looked at again after the await, and a value
\* another call stored in the meantime is kept.
StoreTokenUnlessRefreshed(t, data) ==
    IF marketoToken # NoToken /\ t < marketoTokenExpiresAt
    THEN UNCHANGED <<marketoToken, marketoTokenExpiresAt>>
    ELSE /\ marketoToken' = data.access_token
         /\ marketoTokenExpiresAt' = t + (data.expires_in - SafetyMarginSeconds) * MsPerSecond

\* Mutant: the request is suspended between the two assignments, the
\* token stored and the expiry not yet.
StoreTokenTorn(t, data) ==
    /\ marketoToken' = data.access_token
    /\ UNCHANGED marketoTokenExpiresAt

\* marketoToken = data.access_token; marketoTokenExpiresAt = ...
\* Both assignments run without an await between them.
StoreToken(t, data) ==
    /\ marketoToken' = data.access_token
    /\ marketoTokenExpiresAt' = ExpiresAt(t, data.expires_in)

\* Mutant: the value the cache held before the exchange is returned.
ReturnedStaleToken == marketoToken

\* return marketoToken, after the two assignments
ReturnedToken == marketoToken'

\* The token exchange of request q has been issued and has not completed.
ExchangeInFlight(q) == pc[q] \in {"tokFetch", "tokText", "tokJson"}

(* ------------------------------ steps --------------------------------- *)

\* The handler has responded: its locals and those of the calls it made
\* are gone.
Finish(r, response) ==
    /\ pc' = [pc EXCEPT ![r] = "done"]
    /\ resp' = [resp EXCEPT ![r] = response]
    /\ aiEmail' = [aiEmail EXCEPT ![r] = NoEmail]
    /\ callNow' = [callNow EXCEPT ![r] = 0]
    /\ token' = [token EXCEPT ![r] = NoToken]
    /\ sent' = [sent EXCEPT ![r] = NoPost]
    /\ raced' = [raced EXCEPT ![r] = FALSE]
    /\ overwritten' = [overwritten EXCEPT ![r] = FALSE]
    /\ responses' = [responses EXCEPT ![r] = @ + 1]

\* Mutant: the catch logs the error and sends no response.
FailWithoutResponse(r, message) ==
    /\ pc' = [pc EXCEPT ![r] = "lost"]
    /\ aiEmail' = [aiEmail EXCEPT ![r] = NoEmail]
    /\ callNow' = [callNow EXCEPT ![r] = 0]
    /\ token' = [token EXCEPT ![r] = NoToken]
    /\ sent' = [sent EXCEPT ![r] = NoPost]
    /\ raced' = [raced EXCEPT ![r] = FALSE]
    /\ overwritten' = [overwritten EXCEPT ![r] = FALSE]
    /\ UNCHANGED <<resp, responses>>

\* The catch of the handler: one 500 response with the error's message.
Fail(r, message) == Finish(r, ServerError(message))

\* Mutant: the POST reads the bearer token from the cache variable as it
\* was when the step began, not from the value getMarketoAccessToken
\* returned.
PostLeadWithCachedToken(r, tok, email) ==
    /\ token' = [token EXCEPT ![r] = tok]
    /\ sent' = [sent EXCEPT ![r] =
                  [bearer |-> marketoToken,
                   id |-> req[r].marketoLeadId,
                   fields |-> FieldsToUpdate(email, LanguageOf(req[r]))]]
    /\ calls' = [calls EXCEPT ![r].update = @ + 1]
    /\ pc' = [pc EXCEPT ![r] = "updFetch"]

\* updateMarketoLead from its fetch of leads.json on: the POST is issued
\* with the bearer token tok and the request suspends on it.
PostLead(r, tok, email) ==
    /\ token' = [token EXCEPT ![r] = tok]
    /\ sent' = [sent EXCEPT ![r] =
                  [bearer |-> tok,
                   id |-> req[r].marketoLeadId,
                   fields |-> FieldsToUpdate(email, LanguageOf(req[r]))]]
    /\ calls' = [calls EXCEPT ![r].update = @ + 1]
    /\ pc' = [pc EXCEPT ![r] = "updFetch"]

\* updateMarketoLead up to its first suspension: getMarketoAccessToken
\* reads the clock and either returns the cached token, after which the
\* POST is issued, or issues the token exchange.
UpdateMarketoLead(r, email) ==
    IF CacheValid(now)
    THEN /\ PostLead(r, marketoToken, email)
         /\ UNCHANGED <<callNow, raced>>
    ELSE /\ callNow' = [callNow EXCEPT ![r] = now]
         /\ pc' = [pc EXCEPT ![r] = "tokFetch"]
         /\ calls' = [calls EXCEPT ![r].token = @ + 1]
         /\ raced' = [q \in Reqs |->
                        IF q = r
                        THEN \E o \in Reqs \ {r} : ExchangeInFlight(o)
                        ELSE raced[q] \/ ExchangeInFlight(q)]
         /\ UNCHANGED <<token, sent>>

\* POST /webhooks/ai-email up to the first suspension: the header check,
\* the lead id check, the base data lookup of generateEmailWithAI and the
\* fetch of the chat completion.
Receive(r) ==
    /\ pc[r] = "idle"
    /\ \E keyOk \in BOOLEAN, body \in RequestBodies :
         /\ req' = [req EXCEPT ![r] = body]
         /\ IF ~keyOk
            THEN /\ pc' = [pc EXCEPT ![r] = "done"]
                 /\ resp' = [resp EXCEPT ![r] = Unauthorized]
                 /\ responses' = [responses EXCEPT ![r] = @ + 1]
                 /\ UNCHANGED calls
            ELSE IF LeadIdMissing(body.marketoLeadId)
            THEN /\ pc' = [pc EXCEPT ![r] = "done"]
                 /\ resp' = [resp EXCEPT ![r] = BadRequest]
                 /\ responses' = [responses EXCEPT ![r] = @ + 1]
                 /\ UNCHANGED calls
            ELSE IF BaseDataIdOf(body) \notin BaseDataIds
            THEN /\ pc' = [pc EXCEPT ![r] = "done"]
                 /\ resp' = [resp EXCEPT ![r] = ServerError(ErrUnknownBase)]
                 /\ responses' = [responses EXCEPT ![r] = @ + 1]
                 /\ UNCHANGED calls
            ELSE /\ pc' = [pc EXCEPT ![r] = "genFetch"]
                 /\ calls' = [calls EXCEPT ![r].model = @ + 1]
                 /\ UNCHANGED <<resp, responses>>
    /\ UNCHANGED <<pureVars, now, cacheVars, aiEmail, callNow, token, resOk, sent, content,
                   updBody, raced, overwritten, lastDelivered>>

\* The chat-completion fetch settles: rejected, a non-success status, or
\* a success status.
ModelFetch(r) ==
    /\ pc[r] = "genFetch"
    /\ \/ Fail(r, ErrRuntime)
       \/ /\ pc' = [pc EXCEPT ![r] = "genText"]
          /\ UNCHANGED <<resp, responses, aiEmail, callNow, token, sent, raced, overwritten>>
       \/ /\ pc' = [pc EXCEPT ![r] = "genJson"]
          /\ UNCHANGED <<resp, responses, aiEmail, callNow, token, sent, raced, overwritten>>
    /\ UNCHANGED <<pureVars, now, cacheVars, req, resOk, content, updBody, calls, lastDelivered>>

\* await res.text() of the failed chat completion, then the throw.
ModelText(r) ==
    /\ pc[r] = "genText"
    /\ Fail(r, ErrOpenAI)
    /\ UNCHANGED <<pureVars, now, cacheVars, req, resOk, content, updBody, calls, lastDelivered>>

\* Mutant: the handler goes on only when no token exchange of another
\* request is in flight.
ModelJsonWaitingForExchange(r) ==
    /\ pc[r] = "genJson"
    /\ \A q \in Reqs \ {r} : ~ExchangeInFlight(q)
    /\ \/ /\ Fail(r, ErrRuntime)
          /\ UNCHANGED <<content, calls>>
       \/ \E c \in Contents :
            /\ content' = [content EXCEPT ![r] = c]
            /\ IF ~ExtractEmail(c).ok
               THEN /\ Fail(r, ExtractEmail(c).error)
                    /\ UNCHANGED calls
               ELSE /\ aiEmail' = [aiEmail EXCEPT ![r] = ExtractEmail(c).email]
                    /\ UpdateMarketoLead(r, ExtractEmail(c).email)
                    /\ UNCHANGED <<resp, responses, overwritten>>
    /\ UNCHANGED <<pureVars, now, cacheVars, req, resOk, updBody, lastDelivered>>

\* await res.json() of the chat completion: the body is no JSON or holds
\* no choices[0].message.content string, or it delivers a content; then
\* extraction and validation and, with a validated email, the handler
\* goes on into updateMarketoLead.
ModelJson(r) ==
    /\ pc[r] = "genJson"
    /\ \/ /\ Fail(r, ErrRuntime)
          /\ UNCHANGED <<content, calls>>
       \/ \E c \in Contents :
            /\ content' = [content EXCEPT ![r] = c]
            /\ IF ~ExtractEmail(c).ok
               THEN /\ Fail(r, ExtractEmail(c).error)
                    /\ UNCHANGED calls
               ELSE /\ aiEmail' = [aiEmail EXCEPT ![r] = ExtractEmail(c).email]
                    /\ UpdateMarketoLead(r, ExtractEmail(c).email)
                    /\ UNCHANGED <<resp, responses, overwritten>>
    /\ UNCHANGED <<pureVars, now, cacheVars, req, resOk, updBody, lastDelivered>>

\* The token exchange fetch settles.
TokenFetch(r) ==
    /\ pc[r] = "tokFetch"
    /\ \/ Fail(r, ErrRuntime)
       \/ /\ pc' = [pc EXCEPT ![r] = "tokText"]
          /\ UNCHANGED <<resp, responses, aiEmail, callNow, token, sent, raced, overwritten>>
       \/ /\ pc' = [pc EXCEPT ![r] = "tokJson"]
          /\ UNCHANGED <<resp, responses, aiEmail, callNow, token, sent, raced, overwritten>>
    /\ UNCHANGED <<pureVars, now, cacheVars, req, resOk, content, updBody, calls, lastDelivered>>

\* Mutant: a failed exchange is tried again.
TokenTextRetrying(r) ==
    /\ pc[r] = "tokText"
    /\ pc' = [pc EXCEPT ![r] = "tokFetch"]
    /\ calls' = [calls EXCEPT ![r].token = @ + 1]
    /\ UNCHANGED <<pureVars, now, cacheVars, req, aiEmail, callNow, token, resOk, resp, sent,
                   content, updBody, raced, overwritten, lastDelivered, responses>>

\* Mutant: a failed exchange clears the cache.
TokenTextClearingCache(r) ==
    /\ pc[r] = "tokText"
    /\ Fail(r, ErrToken)
    /\ marketoToken' = NoToken
    /\ marketoTokenExpiresAt' = InitialExpiresAt
    /\ UNCHANGED <<pureVars, now, req, resOk, content, updBody, calls, lastDelivered>>

\* await res.text() of the failed exchange, then the throw: the cache is
\* not touched.
TokenText(r) ==
    /\ pc[r] = "tokText"
    /\ Fail(r, ErrToken)
    /\ UNCHANGED <<pureVars, now, cacheVars, req, resOk, content, updBody, calls, lastDelivered>>

\* await res.json() of the exchange: the body is no JSON, or it delivers
\* the token data, which is stored and returned, and the POST is issued.
TokenJson(r) ==
    /\ pc[r] = "tokJson"
    /\ \/ /\ Fail(r, ErrRuntime)
          /\ UNCHANGED <<cacheVars, calls, lastDelivered>>
       \/ \E data \in [access_token : Tokens, expires_in : ExpiresInValues] :
            /\ StoreToken(callNow[r], data)
            /\ PostLead(r, ReturnedToken, aiEmail[r])
            /\ lastDelivered' =
                  [access_token |-> data.access_token, expires_in |-> data.expires_in,
                   callNow |-> callNow[r]]
            /\ overwritten' = [q \in Reqs |->
                                 IF q # r /\ ExchangeInFlight(q) THEN TRUE
                                 ELSE overwritten[q]]
            /\ UNCHANGED <<resp, responses, aiEmail, callNow, raced>>
    /\ UNCHANGED <<pureVars, now, req, resOk, content, updBody>>

\* The lead-update fetch settles: rejected, or a response with res.ok.
UpdateFetch(r) ==
    /\ pc[r] = "updFetch"
    /\ \/ Fail(r, ErrRuntime) /\ UNCHANGED resOk
       \/ \E ok \in BOOLEAN :
            /\ resOk' = [resOk EXCEPT ![r] = ok]
            /\ pc' = [pc EXCEPT ![r] = "updJson"]
            /\ callNow' = [callNow EXCEPT ![r] = 0]
            /\ token' = [token EXCEPT ![r] = NoToken]
            /\ raced' = [raced EXCEPT ![r] = FALSE]
            /\ overwritten' = [overwritten EXCEPT ![r] = FALSE]
            /\ UNCHANGED <<resp, responses, aiEmail, sent>>
    /\ UNCHANGED <<pureVars, now, cacheVars, req, content, updBody, calls, lastDelivered>>

\* Mutant: only the HTTP status is looked at.
UpdateFailedStatusOnly(ok, data) == ~ok

\* !res.ok || (data && data.errors && data.errors.length)
UpdateFailed(ok, data) == ~ok \/ data = "errors"

\* await res.json() of the lead update, the check of the answer, and the
\* response of the handler.
UpdateJson(r) ==
    /\ pc[r] = "updJson"
    /\ \/ Fail(r, ErrRuntime) /\ UNCHANGED updBody
       \/ \E data \in UpdateBodies :
            /\ updBody' = [updBody EXCEPT ![r] = data]
            /\ IF UpdateFailed(resOk[r], data)
               THEN Fail(r, ErrUpdate)
               ELSE Finish(r, Success(aiEmail[r], data))
    /\ UNCHANGED <<pureVars, now, cacheVars, req, resOk, content, calls, lastDelivered>>

\* The response has gone out; the next request arrives.
Reset(r) ==
    /\ pc[r] = "done"
    /\ pc' = [pc EXCEPT ![r] = "idle"]
    /\ req' = [req EXCEPT ![r] = NoBody]
    /\ resOk' = [resOk EXCEPT ![r] = FALSE]
    /\ resp' = [resp EXCEPT ![r] = NoResponse]
    /\ content' = [content EXCEPT ![r] = NoContent]
    /\ updBody' = [updBody EXCEPT ![r] = NoUpdateBody]
    /\ calls' = [calls EXCEPT ![r] = NoCalls]
    /\ responses' = [responses EXCEPT ![r] = 0]
    /\ UNCHANGED <<pureVars, now, cacheVars, aiEmail, callNow, token, sent, raced, overwritten,
                   lastDelivered>>

\* Time passes.
Tick ==
    /\ now < StartMs + MaxTicks * TickMs
    /\ now' = now + TickMs
    /\ UNCHANGED <<cacheVars, reqVars, histVars, pureVars>>

Next ==
    \/ Tick
    \/ \E r \in Reqs : Receive(r)
    \/ \E r \in Reqs : ModelFetch(r)
    \/ \E r \in Reqs : ModelText(r)
    \/ \E r \in Reqs : ModelJson(r)
    \/ \E r \in Reqs : TokenFetch(r)
    \/ \E r \in Reqs : TokenText(r)
    \/ \E r \in Reqs : TokenJson(r)
    \/ \E r \in Reqs : UpdateFetch(r)
    \/ \E r \in Reqs : UpdateJson(r)
    \/ \E r \in Reqs : Reset(r)

Spec == Init /\ [][Next]_vars

\* The upstream call request r is suspended on completes, with some
\* outcome, and the handler runs on to its next await or to its response.
Completes(r) ==
    \/ ModelFetch(r) \/ ModelText(r) \/ ModelJson(r)
    \/ TokenFetch(r) \/ TokenText(r) \/ TokenJson(r)
    \/ UpdateFetch(r) \/ UpdateJson(r)

\* Every upstream call of every request completes.
FairSpec == Spec /\ \A r \in Reqs : WF_vars(Completes(r))

\* The requests whose upstream calls complete; a call of another request
\* may never respond.
Responding == {2}
HangingSpec == Spec /\ \A r \in Responding : WF_vars(Completes(r))

TypeOK ==
    /\ now \in Nat
    /\ marketoToken \in Tokens \cup {NoToken}
    /\ marketoTokenExpiresAt \in Int
    /\ pc \in [Reqs -> {"idle", "genFetch", "genText", "genJson", "tokFetch",
                        "tokText", "tokJson", "updFetch", "updJson", "done"}]
    /\ \A r \in Reqs : req[r] \in RequestBodies \cup {NoBody}
    /\ \A r \in Reqs : content[r] \in Contents \cup {NoContent}
    /\ token \in [Reqs -> Tokens \cup {NoToken}]
    /\ resOk \in [Reqs -> BOOLEAN]
    /\ \A r \in Reqs : resp[r].status \in {0, 200, 400, 401, 500}
    /\ responses \in [Reqs -> 0..1]

(* ------------------------------ claims -------------------------------- *)

\* The step in which request r calls getMarketoAccessToken.
CallsGetToken(r) == pc[r] = "genJson" /\ pc'[r] \in {"updFetch", "tokFetch"}

\* The step in which the token exchange of request r completes with the
\* token data.
ExchangeSucceeds(r) == pc[r] = "tokJson" /\ pc'[r] = "updFetch"

\* The step in which the token exchange of request r fails on a
\* non-success status.
ExchangeFails(r) == pc[r] = "tokText" /\ pc'[r] = "done"

\* C1: a getMarketoAccessToken call made while a token is cached and
\* now < expiresAt returns the cached token, issues no exchange and leaves
\* the cache alone; a call made with no token cached or with
\* now >= expiresAt issues exactly one exchange; an exchange is issued by
\* no other step; and when the exchange succeeds the cached token and
\* expiry are replaced by the delivered token and the expiry computed from
\* the delivered expires_in.
C1_HitOrOneExchange ==
    [][\A r \in Reqs :
         /\ (CallsGetToken(r) /\ marketoToken # NoToken /\ now < marketoTokenExpiresAt)
              => /\ pc'[r] = "updFetch"
                 /\ token'[r] = marketoToken
                 /\ calls'[r].token = 0
                 /\ UNCHANGED cacheVars
         /\ (CallsGetToken(r) /\ (marketoToken = NoToken \/ now >= marketoTokenExpiresAt))
              => /\ pc'[r] = "tokFetch"
                 /\ calls'[r].token = 1
                 /\ UNCHANGED cacheVars
         /\ (calls'[r].token > calls[r].token) => CallsGetToken(r)
         /\ ExchangeInFlight(r) => calls[r].token = 1
         /\ ExchangeSucceeds(r)
              => /\ marketoToken' = lastDelivered'.access_token
                 /\ marketoTokenExpiresAt' =
                      callNow[r] + (lastDelivered'.expires_in - 300) * 1000
                 /\ token'[r] = lastDelivered'.access_token
      ]_vars

\* C1 witness: a call has been served from a cache that an earlier
\* exchange filled.
C1_Witness ==
    \E r \in Reqs :
      /\ pc[r] = "updFetch"
      /\ calls[r].token = 0
      /\ token[r] = lastDelivered.access_token
      /\ lastDelivered.expires_in = 400

\* C2: a call that returns a token without having issued an exchange
\* returns the cached token, and its remaining lifetime expiresAt - now at
\* the time of the call is positive.
C2_NoStaleTokenWithoutRefresh ==
    [][\A r \in Reqs :
         (CallsGetToken(r) /\ calls'[r].token = 0)
           => /\ marketoTokenExpiresAt - now > 0
              /\ token'[r] = marketoToken
              /\ token'[r] # NoToken
      ]_vars

\* C2 witness: after the first expiry, a call is served from the cache,
\* whose token has a positive remaining lifetime.
C2_Witness ==
    \E r \in Reqs :
      /\ pc[r] = "updFetch"
      /\ calls[r].token = 0
      /\ token[r] = marketoToken
      /\ now = StartMs + TickMs
      /\ marketoTokenExpiresAt - now > 0

\* C3: when an exchange succeeds, the stored expiresAt is the time the call
\* read before the exchange plus (expires_in - 300) * 1000, and it is at
\* most that time plus expires_in * 1000, also for an expires_in below
\* the margin.
C3_ExpiryIsIssuancePlusWindowMinusMargin ==
    [][\A r \in Reqs :
         ExchangeSucceeds(r)
           => /\ marketoTokenExpiresAt' =
                   callNow[r] + (lastDelivered'.expires_in - 300) * 1000
              /\ marketoTokenExpiresAt' <= callNow[r] + lastDelivered'.expires_in * 1000
              /\ marketoTokenExpiresAt' <= now + lastDelivered'.expires_in * 1000
              /\ lastDelivered'.callNow = callNow[r]
      ]_vars

\* C3 witness: the cache holds a token delivered with an expires_in below
\* the margin: its expiry lies before the time of the call.
C3_Witness ==
    /\ marketoToken # NoToken
    /\ lastDelivered.expires_in = 200
    /\ marketoTokenExpiresAt = lastDelivered.callNow - 100000
    /\ marketoTokenExpiresAt < lastDelivered.callNow

\* The cached pair, and the pair that the token data d of an exchange
\* makes.
CachePair == [token |-> marketoToken, expiresAt |-> marketoTokenExpiresAt]
PairOf(d) ==
    [token |-> d.access_token, expiresAt |-> d.callNow + (d.expires_in - 300) * 1000]

\* C4 as stated: when the exchange returns a non-success status the call
\* fails, the cache is as it was before the call (nothing has written it
\* since the call started), and it is expired, so that the next call
\* issues an exchange.
C4_FailedExchangeLeavesCacheAsBeforeCall ==
    [][\A r \in Reqs :
         ExchangeFails(r)
           => /\ resp'[r] = ServerError(ErrToken)
              /\ UNCHANGED cacheVars
              /\ ~overwritten[r]
              /\ ~(marketoToken' # NoToken /\ now < marketoTokenExpiresAt')
      ]_vars

\* C4 amended: when the exchange returns a non-success status the call
\* fails and writes nothing to the cache.  Unless the exchange of another
\* call has completed since the call started, the cache is expired and the
\* next call issues an exchange; otherwise the cache holds what that other
\* exchange stored.
C4_FailedExchangeWritesNothing ==
    [][\A r \in Reqs :
         ExchangeFails(r)
           => /\ resp'[r] = ServerError(ErrToken)
              /\ UNCHANGED cacheVars
              /\ ~overwritten[r]
                   => ~(marketoToken' # NoToken /\ now < marketoTokenExpiresAt')
              /\ overwritten[r] => CachePair' = PairOf(lastDelivered)
      ]_vars

\* C4 witness: a call has failed on the token exchange and the old,
\* expired token is still in the cache.
C4_Witness ==
    \E r \in Reqs :
      /\ pc[r] = "done"
      /\ resp[r] = ServerError(ErrToken)
      /\ marketoToken # NoToken
      /\ now >= marketoTokenExpiresAt

\* C5: when the exchanges of two calls are in flight together, each call
\* whose exchange succeeds returns, and sends as bearer, the token its own
\* exchange delivered, and stores the pair of its own exchange; so once no
\* exchange is in flight the cache holds the token and expiry of the
\* exchange that completed last.
C5_RacingExchangesLastWriteWins ==
    /\ []((lastDelivered # NoData /\ \A q \in Reqs : ~ExchangeInFlight(q))
            => CachePair = PairOf(lastDelivered))
    /\ [][\A r \in Reqs :
            (ExchangeSucceeds(r) /\ raced[r])
              => /\ token'[r] = lastDelivered'.access_token
                 /\ sent'[r].bearer = lastDelivered'.access_token
                 /\ CachePair' = PairOf(lastDelivered')
         ]_vars

\* C5 witness: two calls raced, both exchanges have completed with
\* different tokens, each call holds its own, and the cache holds one of
\* them.
C5_Witness ==
    \E r, q \in Reqs :
      /\ r # q
      /\ raced[r] /\ raced[q]
      /\ pc[r] = "updFetch" /\ pc[q] = "updFetch"
      /\ calls[r].token = 1 /\ calls[q].token = 1
      /\ token[r] # token[q]
      /\ marketoToken = token[q]
      /\ lastDelivered.access_token = token[q]

\* C6: in every state, and so at every suspension point of every request,
\* the cached token and expiry are both the initial values or both the
\* values stored by one completed exchange.
C6_CachedPairNeverTorn ==
    \/ CachePair = [token |-> NoToken, expiresAt |-> 0]
    \/ CachePair = PairOf(lastDelivered)

\* C6 witness: a request suspended in its own exchange finds the cache
\* written by the exchange of another request.
C6_Witness ==
    \E r \in Reqs :
      /\ pc[r] = "tokJson"
      /\ overwritten[r]
      /\ marketoToken # NoToken
      /\ CachePair = PairOf(lastDelivered)

\* A field of an email that is present and non-empty: a non-empty string.
NonEmptyText(v) == v \in {"S", "T"}

\* The model answered request r with a text that parses as a JSON object.
ParsesAsJson(r) ==
    /\ content[r] # NoContent
    /\ ~NoJsonObject(StripFences(content[r]))
    /\ JsonParses(JsonSlice(StripFences(content[r])))

\* C7: the lead-update POST is issued only with an email whose subject,
\* preheader and htmlBody are all present and non-empty; after an answer of
\* the model that parses as JSON and has one of the three missing or empty,
\* no lead-update POST is issued and the request ends with the
\* missing-fields error.
C7_OnlyCompleteEmailForwarded ==
    \A r \in Reqs :
      /\ sent[r] # NoPost
           => /\ NonEmptyText(sent[r].fields.AI_Email_Subject__c)
              /\ NonEmptyText(sent[r].fields.AI_Email_Preheader__c)
              /\ NonEmptyText(sent[r].fields.AI_Email_Body_HTML__c)
      /\ (/\ ParsesAsJson(r)
          /\ \E f \in {"subject", "preheader", "htmlBody"} :
               ~NonEmptyText(JsonParse(JsonSlice(StripFences(content[r])))[f]))
           => /\ calls[r].update = 0
              /\ pc[r] = "done"
              /\ resp[r] = ServerError(ErrMissingFields)

\* C8: a request without a lead identifier (absent or empty) is answered
\* with a client error in the step that receives it, no model completion,
\* token exchange or lead update is ever issued for it, and that step
\* leaves the token cache unchanged.
C8_NoLeadIdNoOutboundCall ==
    /\ [](\A r \in Reqs :
            (pc[r] # "idle" /\ req[r].marketoLeadId \in {UNDEF, ""})
              => /\ pc[r] = "done"
                 /\ resp[r].status \in {400, 401}
                 /\ resp[r].aiEmail = NoEmail
                 /\ calls[r] = NoCalls)
    /\ [][\A r \in Reqs :
            (pc[r] = "idle" /\ pc'[r] # "idle" /\ req'[r].marketoLeadId \in {UNDEF, ""})
              => /\ pc'[r] = "done"
                 /\ UNCHANGED cacheVars
         ]_vars

\* C8 witness: a request with an empty lead id has been answered 400 while
\* the cache holds a token.
C8_Witness ==
    \E r \in Reqs :
      /\ pc[r] = "done"
      /\ req[r].marketoLeadId = ""
      /\ resp[r] = BadRequest
      /\ calls[r] = NoCalls
      /\ marketoToken # NoToken

\* C9: when the lead-update response has a non-success status or its parsed
\* body carries a non-empty errors list, the request ends with a server
\* error carrying the update-failed message; a request whose lead update
\* could not be read at all ends with a server error too; success is
\* answered by no request whose lead update was not ok or carried errors.
C9_UpdateErrorsAreFailures ==
    \A r \in Reqs :
      (pc[r] = "done" /\ calls[r].update = 1)
        => /\ (updBody[r] # NoUpdateBody /\ (~resOk[r] \/ updBody[r] = "errors"))
                => resp[r] = ServerError(ErrUpdate)
           /\ (updBody[r] = NoUpdateBody \/ ~resOk[r] \/ updBody[r] = "errors")
                => resp[r].status = 500

\* C9 witness: the lead update answered HTTP success with a non-empty
\* errors list and the request got a server error.
C9_Witness ==
    \E r \in Reqs :
      /\ pc[r] = "done"
      /\ resOk[r]
      /\ updBody[r] = "errors"
      /\ resp[r] = ServerError(ErrUpdate)

\* C10: a request is answered success exactly when the extraction of the
\* model's answer returned a validated email and the lead update was then
\* answered with a success status and a body without errors; the success
\* response carries that email and that body; and the lead-update POST
\* carries the lead id of the request and that email's subject, preheader
\* and htmlBody, the language of the request and ready = true.
C10_SuccessExactlyWhenBothSucceed ==
    \A r \in Reqs :
      /\ pc[r] = "done"
           => /\ resp[r].status = 200
                   <=> /\ ExtractEmail(content[r]).ok
                       /\ calls[r].update = 1
                       /\ resOk[r]
                       /\ updBody[r] \in {"noErrors", "emptyErrors"}
              /\ resp[r].status = 200
                   => /\ resp[r].aiEmail = ExtractEmail(content[r]).email
                      /\ resp[r].marketo = updBody[r]
      /\ sent[r] # NoPost
           => /\ ExtractEmail(content[r]).ok
              /\ aiEmail[r] = ExtractEmail(content[r]).email
              /\ sent[r].id = req[r].marketoLeadId
              /\ sent[r].fields =
                   [AI_Email_Subject__c |-> aiEmail[r].subject,
                    AI_Email_Preheader__c |-> aiEmail[r].preheader,
                    AI_Email_Body_HTML__c |-> aiEmail[r].htmlBody,
                    AI_Email_Language__c |->
                        IF req[r].language = UNDEF THEN "nl" ELSE req[r].language,
                    AI_Email_Ready__c |-> TRUE]

\* C10 witness: a request sent in English has been answered success with
\* the email extracted from a fenced answer and the body of the lead
\* update.
C10_Witness ==
    \E r \in Reqs :
      /\ pc[r] = "done"
      /\ req[r].language = "en"
      /\ content[r] = Fenced
      /\ resp[r].status = 200
      /\ resp[r].aiEmail = [subject |-> "S", preheader |-> "S", htmlBody |-> "S"]
      /\ resp[r].marketo = "emptyErrors"

\* The messages of the errors generateEmailWithAI throws itself.
GenerationErrors ==
    {ErrUnknownBase, ErrOpenAI, ErrNoJsonObject, ErrNotPureJson, ErrMissingFields}

\* Request r is inside generateEmailWithAI.
Generating(r) == pc[r] \in {"genFetch", "genText", "genJson"}

\* C11: while a request is in generation, and for ever after its
\* generation has failed (unknown base data id, failed model call, no JSON
\* object, parse failure, missing fields), no token exchange and no lead
\* update has been issued for it; a token exchange or a lead update is
\* issued only by a step in which generation has returned an email.
C11_NoUpdateAfterFailedGeneration ==
    /\ [](\A r \in Reqs :
            /\ Generating(r)
                 => calls[r].token = 0 /\ calls[r].update = 0 /\ sent[r] = NoPost
            /\ content[r] \in {EmptySubject, NoHtmlBody, NoObject, NotJson}
                 => pc[r] = "done" /\ calls[r].token = 0 /\ calls[r].update = 0
            /\ (pc[r] = "done" /\ resp[r].error \in GenerationErrors)
                 => calls[r].token = 0 /\ calls[r].update = 0)
    /\ [][\A r \in Reqs :
            /\ (calls'[r].token > calls[r].token \/ calls'[r].update > calls[r].update)
                 => /\ pc[r] \in {"genJson", "tokJson"}
                    /\ aiEmail'[r] # NoEmail
                    /\ aiEmail'[r] = ExtractEmail(content'[r]).email
            /\ ((pc[r] = "idle" \/ Generating(r)) /\ pc'[r] = "done")
                 => /\ calls'[r].token = 0 /\ calls'[r].update = 0
                    /\ resp'[r].status # 200
         ]_vars

\* C11 witness: a request whose answer lacked the htmlBody has failed with
\* only the model call issued.
C11_Witness ==
    \E r \in Reqs :
      /\ pc[r] = "done"
      /\ content[r] = NoHtmlBody
      /\ resp[r] = ServerError(ErrMissingFields)
      /\ calls[r] = [model |-> 1, token |-> 0, update |-> 0]

\* C12: for every request at most one model-completion call, at most one
\* token exchange and at most one lead-update POST have been issued.
C12_NoRetry ==
    \A r \in Reqs :
      /\ calls[r].model <= 1
      /\ calls[r].token <= 1
      /\ calls[r].update <= 1

\* C12 witness: a request has failed on the token exchange, another on the
\* lead update, and each call was issued once.
C12_Witness ==
    \E r, q \in Reqs :
      /\ pc[r] = "done" /\ pc[q] = "done"
      /\ resp[r] = ServerError(ErrToken)
      /\ calls[r] = [model |-> 1, token |-> 1, update |-> 0]
      /\ resp[q] = ServerError(ErrUpdate)
      /\ calls[q].model = 1 /\ calls[q].update = 1

\* The 500 response with the given text as its error and nothing else.
IsServerError(response, text) ==
    /\ response.status = 500
    /\ response.error = text
    /\ response.aiEmail = NoEmail
    /\ response.marketo = NoUpdateBody

\* C13: a request is answered at most once, and has been answered exactly
\* when its handler has ended; a step in which generation, the token
\* exchange or the lead update fails answers 500 with the message of the
\* error thrown and nothing else; when the lead update fails after a
\* successful generation the response carries the update-failed message
\* and no email.
C13_FailuresAnswerOnceWithMessage ==
    /\ [](\A r \in Reqs :
            /\ responses[r] <= 1
            /\ (pc[r] = "done") <=> (responses[r] = 1)
            /\ resp[r].status = 500
                 => resp[r].aiEmail = NoEmail /\ resp[r].marketo = NoUpdateBody
                    /\ resp[r].error # "")
    /\ [][\A r \in Reqs :
            /\ (responses'[r] > responses[r])
                 => responses[r] = 0 /\ pc[r] # "done" /\ pc'[r] = "done"
            /\ (pc[r] = "idle" /\ pc'[r] = "done" /\ resp'[r].status = 500)
                 => /\ req'[r].baseDataId = "OTHER"
                    /\ IsServerError(resp'[r], "Onbekende baseDataId: OTHER")
            /\ (pc[r] = "genText" /\ pc'[r] = "done")
                 => IsServerError(resp'[r], "Failed to call OpenAI")
            /\ (pc[r] = "genJson" /\ pc'[r] = "done" /\ content'[r] # NoContent)
                 => /\ resp'[r].error \in
                         {"OpenAI output bevat geen geldig JSON-object",
                          "OpenAI output is geen zuiver JSON (zie logs voor details)",
                          "OpenAI JSON mist subject/preheader/htmlBody"}
                    /\ IsServerError(resp'[r], ExtractEmail(content'[r]).error)
            /\ (pc[r] = "tokText" /\ pc'[r] = "done")
                 => IsServerError(resp'[r], "Failed to get Marketo access token")
            /\ (pc[r] = "updJson" /\ pc'[r] = "done" /\ updBody'[r] # NoUpdateBody
                  /\ (~resOk[r] \/ updBody'[r] = "errors"))
                 => /\ aiEmail[r] # NoEmail
                    /\ IsServerError(resp'[r], "Failed to update Marketo lead")
            /\ (pc[r] \notin {"idle", "done"} /\ pc'[r] = "done" /\ resp'[r].status # 200)
                 => resp'[r].status = 500 /\ resp'[r].error # ""
         ]_vars

\* C13 witness: generation succeeded, the lead update answered with errors,
\* and the one response is the update failure without the email.
C13_Witness ==
    \E r \in Reqs :
      /\ pc[r] = "done"
      /\ content[r] = Fenced
      /\ updBody[r] = "errors"
      /\ responses[r] = 1
      /\ resp[r].error = "Failed to update Marketo lead"
      /\ resp[r].aiEmail = NoEmail

\* C18: the lead-update POST is issued only in the step in which
\* getMarketoAccessToken returns, from the cache or from the exchange, and
\* its bearer is the token returned; while the exchange is in flight no
\* POST has been issued, and when the exchange fails none is issued and
\* the request is answered 500.
C18_PostCarriesReturnedToken ==
    /\ [](\A r \in Reqs :
            /\ pc[r] = "updFetch"
                 => /\ sent[r] # NoPost
                    /\ sent[r].bearer = token[r]
                    /\ token[r] # NoToken
                    /\ calls[r].update = 1
            /\ ExchangeInFlight(r)
                 => sent[r] = NoPost /\ calls[r].update = 0 /\ token[r] = NoToken)
    /\ [][\A r \in Reqs :
            /\ (calls'[r].update > calls[r].update)
                 => /\ sent'[r].bearer = token'[r]
                    /\ \/ /\ pc[r] = "genJson"
                          /\ calls'[r].token = 0
                          /\ token'[r] = marketoToken
                       \/ /\ pc[r] = "tokJson"
                          /\ token'[r] = lastDelivered'.access_token
                          /\ token'[r] = marketoToken'
            /\ (ExchangeInFlight(r) /\ pc'[r] = "done")
                 => /\ calls'[r].update = 0
                    /\ sent'[r] = NoPost
                    /\ resp'[r].status = 500
         ]_vars

\* C18 witness: a POST is in flight with the token the request's own
\* exchange returned, while the cache already holds another token.
C18_Witness ==
    \E r \in Reqs :
      /\ pc[r] = "updFetch"
      /\ calls[r].token = 1
      /\ sent[r].bearer = token[r]
      /\ marketoToken # NoToken
      /\ marketoToken # token[r]

\* C19: the token getMarketoAccessToken returns, and so the bearer of every
\* lead-update POST, is never the initial empty value: it is the token the
\* latest successful exchange before the return delivered.
C19_ReturnedTokenWasDelivered ==
    /\ [](\A r \in Reqs :
            /\ token[r] # NoToken => token[r] \in Tokens /\ lastDelivered # NoData
            /\ sent[r] # NoPost => sent[r].bearer \in Tokens /\ lastDelivered # NoData)
    /\ [][\A r \in Reqs :
            (pc[r] \in {"genJson", "tokJson"} /\ pc'[r] = "updFetch")
              => /\ token'[r] # NoToken
                 /\ token'[r] = lastDelivered'.access_token
         ]_vars

\* C19 witness: one request has failed on its exchange, and another is
\* served from the cache the token an earlier exchange delivered.
C19_Witness ==
    \E r, q \in Reqs :
      /\ pc[q] = "done"
      /\ resp[q].error = "Failed to get Marketo access token"
      /\ pc[r] = "updFetch"
      /\ calls[r].token = 0
      /\ sent[r].bearer = lastDelivered.access_token
      /\ sent[r].bearer \in Tokens

\* C17: whatever the other requests do, also when a request stays
\* suspended on an upstream call for ever, a request whose own upstream
\* calls complete is eventually answered.
C17_SuspendedRequestBlocksNoOther ==
    \A r \in Responding : (pc[r] # "idle") ~> (pc[r] = "done" /\ responses[r] = 1)

\* C17 witness: a request has gone through its own token exchange and its
\* lead update and has been answered while another request is still
\* suspended on its token exchange.
C17_Witness ==
    \E h \in Reqs \ Responding, r \in Responding :
      /\ pc[h] = "tokFetch"
      /\ pc[r] = "done"
      /\ resp[r].status = 200
      /\ calls[r].token = 1

\* C20: when every upstream call completes, every request that has arrived
\* is eventually answered, with one response, which is unauthorized, bad
\* request, success or server error; and no request is ever answered twice.
C20_EveryRequestAnsweredOnce ==
    /\ \A r \in Reqs :
         (pc[r] # "idle")
           ~> (pc[r] = "done" /\ responses[r] = 1 /\ resp[r].status \in {200, 400, 401, 500})
    /\ [](\A r \in Reqs : responses[r] <= 1)

\* C20 witness: two concurrent requests have both been answered, one with
\* success and one with a server error.
C20_Witness ==
    /\ \A r \in Reqs : pc[r] = "done" /\ responses[r] = 1
    /\ \E r, q \in Reqs : resp[r].status = 200 /\ resp[q].status = 500

(* ------------- extraction and prompt building on their own ------------ *)

\* The texts extraction is run on: commentary, an opening fence with or
\* without a language tag, a body, a closing fence, commentary.
CommentSyms == {"a", " ", "{", "}", "BT"}
Comments == UNION {[1..n -> CommentSyms] : n \in 0..MaxCommentLen}
OpeningFences == {<<>>, <<"BT", "BT", "BT">>, <<"BT", "BT", "BT", "a", "a", " ">>}
ClosingFences == {<<>>, <<"BT", "BT", "BT">>, <<" ", "BT", "BT", "BT">>}
CleanT == <<"{", "subject:", "T", ",", "preheader:", "S", ",", "htmlBody:", "T", "}">>
ValidJs == {CleanS, CleanT}
Bodies == ValidJs \cup {EmptySubject, NotJson, <<>>, <<"{">>, <<"}">>, <<"}", " ", "{">>}

ContentInputs ==
    [kind : {"content"}, before : Comments, open : OpeningFences, body : Bodies,
     close : ClosingFences, after : Comments]

\* data.choices[0].message.content
TextOf(i) == i.before \o i.open \o i.body \o i.close \o i.after

\* The arguments buildUserPrompt is run on.
PromptInputs ==
    [kind : {"prompt"}, sector : {UNDEF, "", "retail"}, employeeCount : {UNDEF, "25"},
     jobTitle : {UNDEF, "CEO"}, language : {UNDEF, "", "fr"}]

InitFunctions ==
    /\ InitProgram
    /\ input \in ContentInputs \cup PromptInputs
    /\ output = NoOutput

\* Lines 208-244 run on the text.
RunExtractEmail ==
    /\ input.kind = "content"
    /\ output = NoOutput
    /\ output' = [kind |-> "extracted", result |-> ExtractEmail(TextOf(input))]
    /\ UNCHANGED <<input, now, cacheVars, reqVars, histVars>>

\* buildUserPrompt run on the arguments.
RunBuildUserPrompt ==
    /\ input.kind = "prompt"
    /\ output = NoOutput
    /\ output' = [kind |-> "prompt", result |-> BuildUserPrompt(input)]
    /\ UNCHANGED <<input, now, cacheVars, reqVars, histVars>>

NextFunctions == RunExtractEmail \/ RunBuildUserPrompt

FunctionSpec == InitFunctions /\ [][NextFunctions]_vars

\* No opening brace of the text is followed by a closing brace: the text
\* has no "{", or no "}", or its last "}" is at or before its first "{".
NoBracePair(t) ==
    ~\E i, j \in 1..Len(t) : i < j /\ t[i] = "{" /\ t[j] = "}"

\* C14: for every text without a "{", without a "}", or whose last "}" is
\* at or before its first "{", extraction fails with the no-JSON-object
\* error and JSON.parse is not called.
C14_NoBracePairIsMalformedOutput ==
    (output.kind = "extracted" /\ NoBracePair(TextOf(input)))
      => /\ ~output.result.ok
         /\ output.result.error = "OpenAI output bevat geen geldig JSON-object"
         /\ ~output.result.parseCalled
         /\ output.result.email = NoEmail

\* C14 witness: extraction has refused a fenced text whose only closing
\* brace comes before its only opening brace.
C14_Witness ==
    /\ output.kind = "extracted"
    /\ input.before = <<"}">>
    /\ input.open = <<"BT", "BT", "BT">>
    /\ input.body = <<"{">>
    /\ output.result.error = ErrNoJsonObject

\* The object a valid email JSON text denotes.
ParsedObject(J) == [subject |-> J[3], preheader |-> J[6], htmlBody |-> J[9]]

\* The input is a valid email JSON object wrapped in a fence.
FencedValidJson(i) ==
    i.kind = "content" /\ i.body \in ValidJs /\ i.open # <<>> /\ i.close # <<>>

\* C15 as stated: a valid email JSON object in a fence, with or without a
\* language tag, with any commentary before and after the fence, is
\* extracted as the object itself.
C15_FenceAndAnyCommentaryIgnored ==
    (output.kind = "extracted" /\ FencedValidJson(input))
      => /\ output.result.ok
         /\ output.result.email = ParsedObject(input.body)

\* C15 amended: a valid email JSON object in a fence, with or without a
\* language tag, with commentary that has no "{" before the fence and no
\* "}" after it, is extracted as the object itself.
C15_FenceAndBraceFreeCommentaryIgnored ==
    (/\ output.kind = "extracted"
     /\ FencedValidJson(input)
     /\ \A k \in 1..Len(input.before) : input.before[k] # "{"
     /\ \A k \in 1..Len(input.after) : input.after[k] # "}")
      => /\ output.result.ok
         /\ output.result.email = ParsedObject(input.body)

\* C15 witness: the object has been extracted from a fence with a language
\* tag, with commentary before and after it.
C15_Witness ==
    /\ output.kind = "extracted"
    /\ input.before = <<"a">>
    /\ input.open = <<"BT", "BT", "BT", "a", "a", " ">>
    /\ input.body = CleanT
    /\ input.close = <<" ", "BT", "BT", "BT">>
    /\ input.after = <<"a">>
    /\ output.result.ok
    /\ output.result.email = [subject |-> "T", preheader |-> "S", htmlBody |-> "T"]

\* C16 as stated: in the prompt each of sector, employee count, job title
\* and language that is absent is replaced by the unknown marker.
C16_AbsentAttributesAreUnknown ==
    output.kind = "prompt"
      => \A a \in {"sector", "employeeCount", "jobTitle", "language"} :
           input[a] = UNDEF => output.result[a] = "onbekend"

\* C16 amended: in the prompt each of sector, employee count and job title
\* that is absent is replaced by the unknown marker, an absent language by
\* the default language nl, and an attribute that is given and not empty is
\* put in as it is.
C16_AbsentAttributesAreUnknownLanguageDefault ==
    output.kind = "prompt"
      => /\ \A a \in {"sector", "employeeCount", "jobTitle"} :
              input[a] = UNDEF => output.result[a] = "onbekend"
         /\ input.language = UNDEF => output.result.language = "nl"
         /\ \A a \in {"sector", "employeeCount", "jobTitle", "language"} :
              input[a] \notin {UNDEF, ""} => output.result[a] = input[a]

\* C16 witness: a prompt built with only the job title given.
C16_Witness ==
    /\ output.kind = "prompt"
    /\ input.sector = UNDEF /\ input.employeeCount = UNDEF /\ input.language = UNDEF
    /\ input.jobTitle = "CEO"
    /\ output.result =
         [sector |-> "onbekend", employeeCount |-> "onbekend", jobTitle |-> "CEO",
          language |-> "nl"]

====
